---- MODULE Spec2Model ----
(***************************************************************************)
(* Token lifecycle (oauth.py, client.py) and response interpretation       *)
(* (api.py) of ezviz-openapi-utils.                                        *)
(*                                                                         *)
(* Python values are tagged pairs <<type, text>>: a str, an int (its       *)
(* decimal text), None, or a dict (a function from keys to values).  The   *)
(* Chinese remark literals of the source are written as ASCII glosses.     *)
(***************************************************************************)
EXTENDS Integers, Sequences, FiniteSets, TLC

VARIABLES clients, acquired, apis, last, pending, interp

vars == <<clients, acquired, apis, last, pending, interp>>

----------------------------------------------------------------------------
(* Python values *)

StrV(s) == <<"str", s>>

IntV(s) == <<"int", s>>

None == <<"none", "None">>

Dict(f) == <<"dict", f>>

\* a JSON array: parsed, but without the methods of a dict
List == <<"list", "[]">>

\* a body that response.json() cannot parse
Unparseable == <<"unparseable", "">>

EmptyDict == [k \in {} |-> None]

IsDict(v) == v[1] = "dict"

\* str(v) for a scalar: the same text, typed str
str_of(v) == <<"str", v[2]>>

\* a == b for scalars: an int never equals a str
PyEq(a, b) == a[1] = b[1] /\ a[2] = b[2]

\* d.get(k, default) on a dict d
Get(d, k, default) == IF k \in DOMAIN d[2] THEN d[2][k] ELSE default

\* bool(v): None and the empty string are falsy
Truthy(v) == ~(v[1] = "none" \/ (v[1] = "str" /\ v[2] = ""))

\* one-key dict fragment, or nothing when the key is left out
Field(k, present, v) == IF present THEN [x \in {k} |-> v] ELSE EmptyDict

----------------------------------------------------------------------------
(* exceptions.py *)

\* "{v}" inside an f-string: str(v); a text stays the text it is
Format(v) == IF v[1] \in {"int", "none"} THEN str_of(v) ELSE v

\* a string representation that leaves the remark out
ErrorText_without_remark(kind, code, message, remark) ==
    IF kind \in {"EZVIZAuthError", "EZVIZAPIError", "EZVIZDeviceNotSupportedError"}
    THEN <<"fstr", <<StrV("Code "), Format(code), StrV(": "), Format(message)>>>>
    ELSE None

\* str(e): EZVIZBaseError passes f"Code {code}: {message} - {remark}" to
\* Exception.__init__; the other exceptions' texts are not modelled
ErrorText(kind, code, message, remark) ==
    IF kind \in {"EZVIZAuthError", "EZVIZAPIError", "EZVIZDeviceNotSupportedError"}
    THEN <<"fstr", <<StrV("Code "), Format(code), StrV(": "), Format(message),
                     StrV(" - "), Format(remark)>>>>
    ELSE None

\* what an operation hands to its caller: a return value or a raised exception
Outcome(kind, code, message, remark, value) ==
    [kind |-> kind, code |-> code, message |-> message, remark |-> remark,
     value |-> value, text |-> ErrorText(kind, code, message, remark)]

Return(value) == Outcome("return", None, None, None, value)

\* an exception of another library or a builtin: no code/message/remark fields
Raise(kind) == Outcome(kind, None, None, None, None)

EZVIZAuthError(code, message, remark) ==
    Outcome("EZVIZAuthError", code, message, remark, None)

EZVIZAPIError(code, message, remark) ==
    Outcome("EZVIZAPIError", code, message, remark, None)

\* the remark is built from the device serial, the API name and the message
EZVIZDeviceNotSupportedError(code, message, device_serial, api_name) ==
    Outcome("EZVIZDeviceNotSupportedError", code, message,
            <<"fstr", <<"device ", device_serial, " does not support ", api_name,
                        ": ", message[2]>>>>, None)

EZVIZErrorKinds ==
    {"EZVIZAuthError", "EZVIZAPIError", "EZVIZDeviceNotSupportedError"}

----------------------------------------------------------------------------
(* HTTP transport: requests.Response *)

\* raise_for_status() raises HTTPError for 4xx and 5xx
RaisesForStatus(status) == status >= 400 /\ status < 600

----------------------------------------------------------------------------
(* oauth.py *)

ERROR_CODE_REMARKS ==
    [c \in {"10001", "10005", "10017", "10030", "49999"} |->
        CASE c = "10001" -> StrV("parameter empty or malformed")
          [] c = "10005" -> StrV("appKey frozen")
          [] c = "10017" -> StrV("check that appKey is correct")
          [] c = "10030" -> StrV("")
          [] c = "49999" -> StrV("interface call exception")]

\* ERROR_CODE_REMARKS.get(code, default): the keys are str
RemarkGet_always_default(table, code, default) == default

RemarkGet(table, code, default) ==
    IF code[1] = "str" /\ code[2] \in DOMAIN table THEN table[code[2]] ELSE default

url_map ==
    [r \in {"cn", "en", "eu", "us", "sa", "sg", "in", "ru"} |->
        CASE r = "cn" -> "https://open.ys7.com/api/lapp/token/get"
          [] r = "en" -> "https://open.ezvizlife.com/api/lapp/token/get"
          [] r = "eu" -> "https://ieuopen.ezvizlife.com/api/lapp/token/get"
          [] r = "us" -> "https://iusopen.ezvizlife.com/api/lapp/token/get"
          [] r = "sa" -> "https://isaopen.ezvizlife.com/api/lapp/token/get"
          [] r = "sg" -> "https://isgpopen.ezvizlife.com/api/lapp/token/get"
          [] r = "in" -> "https://iindiaopen.ezvizlife.com/api/lapp/token/get"
          [] r = "ru" -> "https://irusopen.ezvizlife.com/api/lapp/token/get"]

AccessTokenData(data) ==
    [access_token |-> Get(data, "accessToken", None),
     expire_time  |-> Get(data, "expireTime", None),
     area_domain  |-> Get(data, "areaDomain", None)]

NoData == [access_token |-> None, expire_time |-> None, area_domain |-> None]

NoToken == [code |-> None, msg |-> None, data |-> NoData]

\* AccessToken._get_url: the URL, or the ValueError of an unknown region
_get_url_default(region) ==
    IF region \notin DOMAIN url_map
    THEN [raises |-> FALSE, url |-> url_map["cn"]]
    ELSE [raises |-> FALSE, url |-> url_map[region]]

_get_url(region) ==
    IF region \notin DOMAIN url_map
    THEN [raises |-> TRUE, url |-> ""]
    ELSE [raises |-> FALSE, url |-> url_map[region]]

\* AccessToken._request_access_token against the token endpoint's answer tr:
\* the exception raised ("" when none), the parsed body and the number of
\* requests sent to the token endpoint
Requested(raised, result, calls) ==
    [raised |-> raised, result |-> result, calls |-> calls]

_request_access_token(region, tr) ==
    IF _get_url(region).raises THEN Requested("ValueError", None, 0)
    ELSE IF tr.conn THEN Requested("ConnectionError", None, 1)
    ELSE IF RaisesForStatus(tr.status) THEN Requested("HTTPError", None, 1)
    ELSE IF tr.body[1] = "unparseable" THEN Requested("JSONDecodeError", None, 1)
    ELSE Requested("", tr.body, 1)

\* AccessToken(app_key, app_secret, region): the outcome, the object (when
\* one is returned) and the number of requests sent to the token endpoint
AccessTokenResult(out, token, calls) == [out |-> out, token |-> token, calls |-> calls]

AccessToken(app_key, app_secret, region, tr) ==
    LET q == _request_access_token(region, tr)
    IN  IF q.raised # "" THEN AccessTokenResult(Raise(q.raised), NoToken, q.calls)
        ELSE IF ~IsDict(q.result)
        THEN AccessTokenResult(Raise("AttributeError"), NoToken, q.calls)
        ELSE LET code == Get(q.result, "code", StrV("unknown"))
                 msg  == Get(q.result, "msg", StrV("no message"))
             IN  IF ~PyEq(code, StrV("200"))
                 THEN AccessTokenResult(
                          EZVIZAuthError(code, msg,
                              RemarkGet(ERROR_CODE_REMARKS, code, StrV("unknown error"))),
                          NoToken, q.calls)
                 ELSE IF "data" \notin DOMAIN q.result[2]
                 THEN AccessTokenResult(Raise("KeyError"), NoToken, q.calls)
                 ELSE IF ~IsDict(q.result[2]["data"])
                 THEN AccessTokenResult(Raise("AttributeError"), NoToken, q.calls)
                 ELSE AccessTokenResult(Return(None),
                          [code |-> code, msg |-> msg,
                           data |-> AccessTokenData(q.result[2]["data"])], q.calls)

get_access_token(app_key, app_secret, region, tr) ==
    AccessToken(app_key, app_secret, region, tr)

----------------------------------------------------------------------------
(* client.py *)

TOKEN_SUCCESS_CODE == StrV("200")

TOKEN_EXPIRED_CODE == StrV("10002")

NoClient ==
    [exists |-> FALSE, app_key |-> "", app_secret |-> "", region |-> "",
     token |-> NoToken]

\* the result of an operation of Client: its outcome, the Client afterwards
\* and the number of requests it sent to the token endpoint
ClientResult(out, client, calls) == [out |-> out, client |-> client, calls |-> calls]

\* Client(app_key, app_secret, region): a raised constructor leaves no object
ClientInit_keeps_object(app_key, app_secret, region, tr) ==
    LET r == AccessToken(app_key, app_secret, region, tr)
        self == [exists |-> TRUE, app_key |-> app_key, app_secret |-> app_secret,
                 region |-> region, token |-> r.token]
    IN  ClientResult(Return(None), self, r.calls)

ClientInit(app_key, app_secret, region, tr) ==
    LET r == AccessToken(app_key, app_secret, region, tr)
        self == [exists |-> TRUE, app_key |-> app_key, app_secret |-> app_secret,
                 region |-> region, token |-> r.token]
    IN  IF r.out.kind # "return"
        THEN ClientResult(r.out, NoClient, r.calls)
        ELSE IF ~PyEq(r.token.code, TOKEN_SUCCESS_CODE)
        THEN ClientResult(EZVIZAuthError(r.token.code, r.token.msg,
                                         StrV("client initialisation failed")),
                          NoClient, r.calls)
        ELSE ClientResult(Return(None), self, r.calls)

\* a token that also counts as expired once its expire_time is the earliest
TokenExpired_or_timer(self) ==
    \/ PyEq(self.token.code, TOKEN_EXPIRED_CODE)
    \/ self.token.data.expire_time = IntV("1")

\* does reading the token consult the token endpoint?
TokenExpired(self) == PyEq(self.token.code, TOKEN_EXPIRED_CODE)

\* a read whose failed re-acquisition already cleared the cached payload
access_token_clears_on_failure(self, tr) ==
    IF TokenExpired(self)
    THEN LET r == AccessToken(self.app_key, self.app_secret, self.region, tr)
             renewed == [self EXCEPT !.token = r.token]
         IN  IF r.out.kind # "return"
             THEN ClientResult(r.out, [self EXCEPT !.token.data = NoData], r.calls)
             ELSE ClientResult(Return(r.token.data.access_token), renewed, r.calls)
    ELSE ClientResult(Return(self.token.data.access_token), self, 0)

\* the property Client.access_token
access_token(self, tr) ==
    IF TokenExpired(self)
    THEN LET r == AccessToken(self.app_key, self.app_secret, self.region, tr)
             renewed == [self EXCEPT !.token = r.token]
         IN  IF r.out.kind # "return"
             THEN ClientResult(r.out, self, r.calls)
             ELSE IF ~PyEq(r.token.code, TOKEN_SUCCESS_CODE)
             THEN ClientResult(EZVIZAuthError(r.token.code, r.token.msg,
                                   StrV("re-acquiring access_token failed")),
                               renewed, r.calls)
             ELSE ClientResult(Return(r.token.data.access_token), renewed, r.calls)
    ELSE ClientResult(Return(self.token.data.access_token), self, 0)

\* the property Client.area_domain
area_domain(self) == self.token.data.area_domain

----------------------------------------------------------------------------
(* api.py *)

GlobalCodes ==
    {"2001", "2003", "2030", "7007", "9049", "10001", "10002", "10005", "10007",
     "10008", "10010", "10011", "10014", "10017", "10018", "10023", "10026",
     "10027", "10028", "10030", "20001", "20002", "20005", "20007", "20008",
     "20010", "20018", "20025", "20031", "60020", "60057", "60060", "60083",
     "60084", "60085", "60086"}

\* the remark texts are opaque: each entry is named by its table and key
GLOBAL_ERROR_CODE_MAP == [c \in GlobalCodes |-> <<"remark", <<"global", c>>>>]

DEVICE_NOT_SUPPORTED_CODES ==
    {"2030", "20015", "20019", "60000", "60020", "60047", "60050", "60051", "60053"}

DEFAULT_BASE_URL == StrV("https://open.ys7.com")

NoAPI == [exists |-> FALSE, base_url |-> None]

\* an API object that ignores the token's area_domain
EZVIZOpenAPIInit_always_default(client) ==
    [exists |-> TRUE, base_url |-> DEFAULT_BASE_URL]

\* EZVIZOpenAPI(client)
EZVIZOpenAPIInit(client) ==
    [exists |-> TRUE,
     base_url |-> IF Truthy(area_domain(client)) THEN area_domain(client)
                  ELSE DEFAULT_BASE_URL]

\* (code, message) of a parsed body, or the AttributeError of calling .get
\* on something that is not a dict
Extracted(code, message) == [err |-> FALSE, code |-> code, message |-> message]

ExtractFailed == [err |-> TRUE, code |-> None, message |-> None]

UNKNOWN_ERROR == StrV("unknown error")

\* nested.get(ckey), nested.get(mkey, dflt) for nested = response_data.get(key, {})
ExtractNested(response_data, key, ckey, mkey, dflt) ==
    LET nested == Get(response_data, key, Dict(EmptyDict))
    IN  IF ~IsDict(nested) THEN ExtractFailed
        ELSE Extracted(Get(nested, ckey, None), Get(nested, mkey, dflt))

\* under the default shape, meta.code wins whenever there is one
_extract_code_and_message_meta_overrides(response_data, response_format) ==
    IF ~IsDict(response_data) THEN ExtractFailed
    ELSE IF response_format = "meta"
    THEN ExtractNested(response_data, "meta", "code", "message", UNKNOWN_ERROR)
    ELSE IF response_format = "result"
    THEN ExtractNested(response_data, "result", "code", "msg", UNKNOWN_ERROR)
    ELSE IF response_format = "code"
    THEN Extracted(Get(response_data, "code", None),
                   Get(response_data, "msg", UNKNOWN_ERROR))
    ELSE LET code == Get(response_data, "code", None)
             message == Get(response_data, "msg",
                            Get(response_data, "message", UNKNOWN_ERROR))
             meta == ExtractNested(response_data, "meta", "code", "message", message)
         IN  IF code[1] = "none" \/ (~meta.err /\ meta.code[1] # "none")
             THEN meta
             ELSE Extracted(code, message)

\* under the shapes meta and result, a missing nested code falls back to
\* the top-level code
_extract_code_and_message_fallback(response_data, response_format) ==
    IF ~IsDict(response_data) THEN ExtractFailed
    ELSE IF response_format \in {"meta", "result"}
    THEN LET n == IF response_format = "meta"
                  THEN ExtractNested(response_data, "meta", "code", "message",
                                     UNKNOWN_ERROR)
                  ELSE ExtractNested(response_data, "result", "code", "msg",
                                     UNKNOWN_ERROR)
         IN  IF ~n.err /\ n.code[1] = "none"
             THEN Extracted(Get(response_data, "code", None), n.message)
             ELSE n
    ELSE IF response_format = "code"
    THEN Extracted(Get(response_data, "code", None),
                   Get(response_data, "msg", UNKNOWN_ERROR))
    ELSE LET code == Get(response_data, "code", None)
             message == Get(response_data, "msg",
                            Get(response_data, "message", UNKNOWN_ERROR))
         IN  IF code[1] = "none"
             THEN ExtractNested(response_data, "meta", "code", "message", message)
             ELSE Extracted(code, message)

_extract_code_and_message(response_data, response_format) ==
    IF ~IsDict(response_data) THEN ExtractFailed
    ELSE IF response_format = "meta"
    THEN ExtractNested(response_data, "meta", "code", "message", UNKNOWN_ERROR)
    ELSE IF response_format = "result"
    THEN ExtractNested(response_data, "result", "code", "msg", UNKNOWN_ERROR)
    ELSE IF response_format = "code"
    THEN Extracted(Get(response_data, "code", None),
                   Get(response_data, "msg", UNKNOWN_ERROR))
    ELSE LET code == Get(response_data, "code", None)
             message == Get(response_data, "msg",
                            Get(response_data, "message", UNKNOWN_ERROR))
         IN  IF code[1] = "none"
             THEN ExtractNested(response_data, "meta", "code", "message", message)
             ELSE Extracted(code, message)

\* custom_map is None or a dict from str codes to remarks
_get_error_remark_global_first(code, custom_map) ==
    IF code[2] \in DOMAIN GLOBAL_ERROR_CODE_MAP
    THEN GLOBAL_ERROR_CODE_MAP[code[2]]
    ELSE IF IsDict(custom_map) /\ code[2] \in DOMAIN custom_map[2]
    THEN custom_map[2][code[2]]
    ELSE UNKNOWN_ERROR

_get_error_remark(code, custom_map) ==
    IF IsDict(custom_map) /\ DOMAIN custom_map[2] # {} /\ code[2] \in DOMAIN custom_map[2]
    THEN custom_map[2][code[2]]
    ELSE IF code[2] \in DOMAIN GLOBAL_ERROR_CODE_MAP
    THEN GLOBAL_ERROR_CODE_MAP[code[2]]
    ELSE UNKNOWN_ERROR

\* code not in (200, "200")
IsSuccessCode_str_only(code) == PyEq(code, StrV("200"))

IsSuccessCode_int_only(code) == PyEq(code, IntV("200"))

IsSuccessCode(code) == PyEq(code, IntV("200")) \/ PyEq(code, StrV("200"))

HTTP_ERROR == StrV("HTTP_ERROR")

\* the parse failure of http_response.json()
ParseFailure_silent(http_response) ==
    IF RaisesForStatus(http_response.status)
    THEN Raise("HTTPError")
    ELSE Return(Dict(EmptyDict))

ParseFailure(http_response) ==
    IF RaisesForStatus(http_response.status)
    THEN Raise("HTTPError")
    ELSE EZVIZAPIError(HTTP_ERROR, <<"fstr", <<"HTTP ", http_response.status>>>>,
                       StrV("cannot parse response data"))

HTTPErrorOutcome(status) ==
    EZVIZAPIError(HTTP_ERROR, <<"fstr", <<"HTTPError ", status>>>>,
                  <<"fstr", <<"HTTP request failed: HTTPError ", status>>>>)

\* the classification of a parsed response with extracted (code, message)
Classified_status_first(http_response, code, message, api_name, device_serial, error_code_map) ==
    IF RaisesForStatus(http_response.status)
    THEN HTTPErrorOutcome(http_response.status)
    ELSE IF str_of(code)[2] \in DEVICE_NOT_SUPPORTED_CODES
    THEN EZVIZDeviceNotSupportedError(str_of(code), message, device_serial, api_name)
    ELSE IF ~IsSuccessCode(code)
    THEN EZVIZAPIError(str_of(code), message,
                       _get_error_remark(str_of(code), error_code_map))
    ELSE Return(http_response.body)

Classified_code_first(http_response, code, message, api_name, device_serial, error_code_map) ==
    IF str_of(code)[2] \in DEVICE_NOT_SUPPORTED_CODES
    THEN EZVIZDeviceNotSupportedError(str_of(code), message, device_serial, api_name)
    ELSE IF IsSuccessCode(code)
    THEN Return(http_response.body)
    ELSE IF RaisesForStatus(http_response.status)
    THEN HTTPErrorOutcome(http_response.status)
    ELSE EZVIZAPIError(str_of(code), message,
                       _get_error_remark(str_of(code), error_code_map))

Classified_returns_data(http_response, code, message, api_name, device_serial, error_code_map) ==
    IF str_of(code)[2] \in DEVICE_NOT_SUPPORTED_CODES
    THEN EZVIZDeviceNotSupportedError(str_of(code), message, device_serial, api_name)
    ELSE IF RaisesForStatus(http_response.status)
    THEN HTTPErrorOutcome(http_response.status)
    ELSE IF ~IsSuccessCode(code)
    THEN EZVIZAPIError(str_of(code), message,
                       _get_error_remark(str_of(code), error_code_map))
    ELSE Return(Get(http_response.body, "data", None))

Classified(http_response, code, message, api_name, device_serial, error_code_map) ==
    IF str_of(code)[2] \in DEVICE_NOT_SUPPORTED_CODES
    THEN EZVIZDeviceNotSupportedError(str_of(code), message, device_serial, api_name)
    ELSE IF RaisesForStatus(http_response.status)
    THEN HTTPErrorOutcome(http_response.status)
    ELSE IF ~IsSuccessCode(code)
    THEN EZVIZAPIError(str_of(code), message,
                       _get_error_remark(str_of(code), error_code_map))
    ELSE Return(http_response.body)

_handle_api_response(http_response, api_name, device_serial, error_code_map, response_format) ==
    IF http_response.body[1] = "unparseable"
    THEN ParseFailure(http_response)
    ELSE LET x == _extract_code_and_message(http_response.body, response_format)
         IN  IF x.err THEN Raise("AttributeError")
             ELSE Classified(http_response, x.code, x.message, api_name,
                             device_serial, error_code_map)

\* the per-call remark table of an endpoint method
CustomMap(api_name, codes) == Dict([c \in codes |-> <<"remark", <<api_name, c>>>>])

\* is_device_support_ezviz, add_device, device_permission_check and
\* get_device_channel_status: what each passes to _handle_api_response and
\* whether it is restricted to the region cn
Endpoint(api_name, cn_only, device_serial, response_format, codes) ==
    [api_name |-> api_name, cn_only |-> cn_only, device_serial |-> device_serial,
     response_format |-> response_format,
     error_code_map |-> CustomMap(api_name, codes)]

Endpoints ==
    {Endpoint("is_device_support_ezviz", TRUE, "", "code", {"10001", "49999"}),
     Endpoint("add_device", FALSE, "SERIAL", "code",
              {"10001", "10002", "10005", "20002", "20007", "20010", "20011",
               "20013", "20014", "20017", "20038", "49999", "60066", "60058",
               "60034", "60085", "60086"}),
     Endpoint("device_permission_check", FALSE, "SERIAL", "meta",
              {"401", "403", "404", "504", "2009", "2021", "70000"}),
     Endpoint("get_device_channel_status", TRUE, "SERIAL", "result",
              {"10001", "10002", "10005", "20002", "20014", "20018", "49999"})}

\* url = f"{self._base_url}<path>": the base URL and the path of ep
EndpointPath(api_name) ==
    CASE api_name = "is_device_support_ezviz" -> "/api/lapp/device/support/ezviz"
      [] api_name = "add_device" -> "/api/lapp/device/add"
      [] api_name = "device_permission_check" ->
             "/api/userdevice/v3/devices/op/permission"
      [] api_name = "get_device_channel_status" -> "/api/v3/open/device/metadata/channel/status"

EndpointURL(api, ep) == <<api.base_url, EndpointPath(ep.api_name)>>

\* one invocation of an endpoint method ep on the API object of Client self:
\* the outcome, the Client afterwards, the requests sent to the token endpoint
\* and to the endpoint, and the bearer attached to the endpoint request
CallResult(out, client, calls, sent, bearer) ==
    [out |-> out, client |-> client, calls |-> calls, sent |-> sent,
     bearer |-> bearer]

\* an endpoint method that sends its request again when told the token
\* has expired
EndpointMethod_resends_on_expiry(ep, self, tr, http_response) ==
    IF ep.cn_only /\ self.region # "cn"
    THEN CallResult(EZVIZAPIError(StrV("403"), StrV("cn only"),
                                  StrV("region restriction")),
                    self, 0, 0, None)
    ELSE LET t == access_token(self, tr)
             out == _handle_api_response(http_response, ep.api_name,
                        ep.device_serial, ep.error_code_map, ep.response_format)
         IN  IF t.out.kind # "return"
             THEN CallResult(t.out, t.client, t.calls, 0, None)
             ELSE IF http_response.conn
             THEN CallResult(Raise("ConnectionError"), t.client, t.calls, 1,
                             t.out.value)
             ELSE CallResult(out, t.client, t.calls,
                             IF out.code = TOKEN_EXPIRED_CODE THEN 2 ELSE 1,
                             t.out.value)

\* an endpoint method that records the expiry code it is answered with on
\* the cached token
EndpointMethod_records_expiry(ep, self, tr, http_response) ==
    IF ep.cn_only /\ self.region # "cn"
    THEN CallResult(EZVIZAPIError(StrV("403"), StrV("cn only"),
                                  StrV("region restriction")),
                    self, 0, 0, None)
    ELSE LET t == access_token(self, tr)
             out == _handle_api_response(http_response, ep.api_name,
                        ep.device_serial, ep.error_code_map, ep.response_format)
         IN  IF t.out.kind # "return"
             THEN CallResult(t.out, t.client, t.calls, 0, None)
             ELSE IF http_response.conn
             THEN CallResult(Raise("ConnectionError"), t.client, t.calls, 1,
                             t.out.value)
             ELSE CallResult(out,
                             IF out.code = TOKEN_EXPIRED_CODE
                             THEN [t.client EXCEPT !.token.code = TOKEN_EXPIRED_CODE]
                             ELSE t.client,
                             t.calls, 1, t.out.value)

\* an endpoint method that reads the token before it looks at the region
EndpointMethod_reads_token_first(ep, self, tr, http_response) ==
    LET t == access_token(self, tr)
    IN  IF t.out.kind # "return"
        THEN CallResult(t.out, t.client, t.calls, 0, None)
        ELSE IF ep.cn_only /\ self.region # "cn"
        THEN CallResult(EZVIZAPIError(StrV("403"), StrV("cn only"),
                                      StrV("region restriction")),
                        t.client, t.calls, 0, None)
        ELSE IF http_response.conn
        THEN CallResult(Raise("ConnectionError"), t.client, t.calls, 1,
                        t.out.value)
        ELSE CallResult(
                 _handle_api_response(http_response, ep.api_name,
                     ep.device_serial, ep.error_code_map, ep.response_format),
                 t.client, t.calls, 1, t.out.value)

EndpointMethod(ep, self, tr, http_response) ==
    IF ep.cn_only /\ self.region # "cn"
    THEN CallResult(EZVIZAPIError(StrV("403"), StrV("cn only"),
                                  StrV("region restriction")),
                    self, 0, 0, None)
    ELSE LET t == access_token(self, tr)
         IN  IF t.out.kind # "return"
             THEN CallResult(t.out, t.client, t.calls, 0, None)
             ELSE IF http_response.conn
             THEN CallResult(Raise("ConnectionError"), t.client, t.calls, 1,
                             t.out.value)
             ELSE CallResult(
                      _handle_api_response(http_response, ep.api_name,
                          ep.device_serial, ep.error_code_map, ep.response_format),
                      t.client, t.calls, 1, t.out.value)

\* search_device_info: its own success codes and remark table
SEARCH_DEVICE_SUCCESS_CODES == {"200", "20020", "20023", "20029"}

error_remark_dict ==
    [c \in {"10001", "10002", "10004", "20002", "20013", "20014", "20020",
            "20023", "20029", "60107", "49999"} |->
        <<"remark", <<"search_device_info", c>>>>]

\* a search that takes only 200 for a success
SearchHandled_only_200(http_response, device_serial) ==
    IF http_response.body[1] = "unparseable"
    THEN ParseFailure(http_response)
    ELSE IF RaisesForStatus(http_response.status)
    THEN HTTPErrorOutcome(http_response.status)
    ELSE LET x == IF IsDict(http_response.body)
                  THEN ExtractNested(http_response.body, "result", "code", "msg",
                                     UNKNOWN_ERROR)
                  ELSE ExtractFailed
             code == str_of(x.code)
         IN  IF x.err THEN Raise("AttributeError")
             ELSE IF code[2] \in DEVICE_NOT_SUPPORTED_CODES
             THEN EZVIZDeviceNotSupportedError(code, x.message, device_serial,
                                               "search_device_info")
             ELSE IF code[2] # "200"
             THEN EZVIZAPIError(code, x.message,
                                RemarkGet(error_remark_dict, code, UNKNOWN_ERROR))
             ELSE Return(http_response.body)

\* the response handling written out in search_device_info: the HTTP status
\* is checked before result.code is read
SearchHandled(http_response, device_serial) ==
    IF http_response.body[1] = "unparseable"
    THEN ParseFailure(http_response)
    ELSE IF RaisesForStatus(http_response.status)
    THEN HTTPErrorOutcome(http_response.status)
    ELSE LET x == IF IsDict(http_response.body)
                  THEN ExtractNested(http_response.body, "result", "code", "msg",
                                     UNKNOWN_ERROR)
                  ELSE ExtractFailed
             code == str_of(x.code)
         IN  IF x.err THEN Raise("AttributeError")
             ELSE IF code[2] \in DEVICE_NOT_SUPPORTED_CODES
             THEN EZVIZDeviceNotSupportedError(code, x.message, device_serial,
                                               "search_device_info")
             ELSE IF code[2] \notin SEARCH_DEVICE_SUCCESS_CODES
             THEN EZVIZAPIError(code, x.message,
                                RemarkGet(error_remark_dict, code, UNKNOWN_ERROR))
             ELSE Return(http_response.body)

\* search_device_info(device_serial, model, method) on the API object of
\* Client self
search_device_info(self, tr, method, http_response) ==
    IF self.region # "cn"
    THEN CallResult(EZVIZAPIError(StrV("403"), StrV("cn only"),
                                  StrV("region restriction")),
                    self, 0, 0, None)
    ELSE IF method \notin {"GET", "POST"}
    THEN CallResult(Raise("ValueError"), self, 0, 0, None)
    ELSE LET t == access_token(self, tr)
         IN  IF t.out.kind # "return"
             THEN CallResult(t.out, t.client, t.calls, 0, None)
             ELSE IF http_response.conn
             THEN CallResult(Raise("ConnectionError"), t.client, t.calls, 1,
                             t.out.value)
             ELSE CallResult(SearchHandled(http_response, "SERIAL"),
                             t.client, t.calls, 1, t.out.value)

\* str(status_code) for the statuses the model answers with
StatusText(status) ==
    CASE status = 200 -> "200"
      [] status = 302 -> "302"
      [] status = 404 -> "404"
      [] status = 500 -> "500"
      [] OTHER -> "0"

\* transmit_isapi_command: the remark table it indexes with the EZO-Code
isapi_error_remark_dict ==
    [c \in {"10001", "10002", "20002", "20006", "20007", "20008", "20018"} |->
        <<"remark", <<"transmit_isapi_command", c>>>>]

\* the try block of transmit_isapi_command after the request has been
\* answered: headers[...] and error_remark_dict[...] raise KeyError for a
\* missing key, and only requests.RequestException is caught. A JSON body
\* that does not parse raises from http_response.json(): a RequestException
\* in the requests releases whose JSONDecodeError derives from it
\* (json_error_wrapped), a plain ValueError in the others.
IsapiHandled(http_response, content_type, json_error_wrapped) ==
    IF RaisesForStatus(http_response.status)
    THEN EZVIZAPIError(StrV(StatusText(http_response.status)),
                       <<"fstr", <<"HTTP ", http_response.status, " error">>>>,
                       StrV(""))
    ELSE IF "EZO-Code" \notin DOMAIN http_response.headers
            \/ "EZO-Message" \notin DOMAIN http_response.headers
    THEN Raise("KeyError")
    ELSE LET ezo_code == http_response.headers["EZO-Code"]
             ezo_message == http_response.headers["EZO-Message"]
         IN  IF ezo_code # StrV("200")
             THEN IF ezo_code[2] \in DOMAIN isapi_error_remark_dict
                  THEN EZVIZAPIError(ezo_code, ezo_message,
                                     isapi_error_remark_dict[ezo_code[2]])
                  ELSE Raise("KeyError")
             ELSE IF content_type # "application/json"
             THEN Return(<<"text", http_response.body>>)
             ELSE IF http_response.body[1] # "unparseable"
             THEN Return(http_response.body)
             ELSE IF json_error_wrapped
             THEN EZVIZAPIError(StrV("NETWORK_ERROR"),
                                <<"fstr", <<"request failed: ", "JSONDecodeError">>>>,
                                StrV(""))
             ELSE Raise("ValueError")

\* transmit_isapi_command(isapi_path, method, device_serial, body,
\* content_type) on the API object of Client self
transmit_isapi_command(self, tr, method, content_type, json_error_wrapped, http_response) ==
    IF method \notin {"GET", "POST", "PUT", "DELETE"}
    THEN CallResult(Raise("ValueError"), self, 0, 0, None)
    ELSE LET t == access_token(self, tr)
         IN  IF t.out.kind # "return"
             THEN CallResult(t.out, t.client, t.calls, 0, None)
             ELSE IF http_response.conn
             THEN CallResult(EZVIZAPIError(StrV("NETWORK_ERROR"),
                                 <<"fstr", <<"request failed: ", "ConnectionError">>>>,
                                 StrV("")),
                             t.client, t.calls, 1, t.out.value)
             ELSE CallResult(IsapiHandled(http_response, content_type,
                                          json_error_wrapped),
                             t.client, t.calls, 1, t.out.value)

\* str.upper() on the method names callers pass
upper(method) ==
    CASE method = "get" -> "GET"
      [] method = "post" -> "POST"
      [] OTHER -> method

\* a request that carries the token in params whatever the method
TokenPlace_always_params(method, data_is_dict) == "params"

\* where Client._request puts accessToken: kwargs['params'] for GET,
\* kwargs['data'] for another method when data is a dict (an absent data
\* is {}), nowhere when the caller passed data that is not a dict
TokenPlace(method, data_is_dict) ==
    IF upper(method) = "GET" THEN "params"
    ELSE IF data_is_dict THEN "data"
    ELSE "none"

\* Client._request(method, url, **kwargs): the token goes into params for
\* GET and into data for any other method when data is a dict; every
\* requests.RequestException becomes EZVIZAPIError "500". A body that is not
\* JSON raises from response.json(): a RequestException in the requests
\* releases whose JSONDecodeError derives from it (json_error_wrapped), a
\* plain ValueError in the others.
_request(self, method, data_is_dict, json_error_wrapped, tr, http_response) ==
    LET t == access_token(self, tr)
        attached == IF TokenPlace(method, data_is_dict) # "none"
                    THEN t.out.value ELSE None
        network_error(text) ==
            EZVIZAPIError(StrV("500"), <<"fstr", <<"request failed: ", text>>>>,
                          StrV("network error"))
    IN  IF t.out.kind # "return"
        THEN CallResult(t.out, t.client, t.calls, 0, None)
        ELSE IF http_response.conn
        THEN CallResult(network_error("ConnectionError"), t.client, t.calls, 1,
                        attached)
        ELSE IF RaisesForStatus(http_response.status)
        THEN CallResult(network_error("HTTPError"), t.client, t.calls, 1, attached)
        ELSE IF http_response.body = Unparseable
        THEN CallResult(IF json_error_wrapped THEN network_error("JSONDecodeError")
                        ELSE Raise("ValueError"),
                        t.client, t.calls, 1, attached)
        ELSE CallResult(Return(http_response.body), t.client, t.calls, 1, attached)

----------------------------------------------------------------------------
(* inputs: what callers pass and what the remote service answers *)

Methods == {"GET", "get", "POST"}

MaxAcquire == 2

ClientIds == {"A", "B"}

Credentials ==
    {[app_key |-> "keyA", app_secret |-> "secretA"],
     [app_key |-> "keyB", app_secret |-> "secretB"]}

\* the regions a Client is built with, and every region a token is asked for
ClientRegions == {"cn", "us", "mars"}

RegionInputs == DOMAIN url_map \cup {"mars", ""}

\* the data object of a successful token answer
TokenPayload(at, exp, hasDomain, dom) ==
    Dict(Field("accessToken", TRUE, StrV(at)) @@ Field("expireTime", TRUE, IntV(exp))
         @@ Field("areaDomain", hasDomain, StrV(dom)))

TokenPayloads ==
    {TokenPayload("at.A", "1", FALSE, ""), TokenPayload("at.A", "2", FALSE, ""),
     TokenPayload("at.A", "1", TRUE, ""),
     TokenPayload("at.B", "1", TRUE, "https://d1"),
     TokenPayload("at.B", "1", TRUE, "https://d2")}

TokenCodes ==
    {StrV("200"), IntV("200"), StrV("10001"), IntV("10001"), StrV("10002"),
     StrV("10005"), StrV("10017"), StrV("10030"), StrV("49999"), StrV("99999"), None}

TokenAnswer(conn, status, body) == [conn |-> conn, status |-> status, body |-> body]

\* {code, msg, data}: an error answer has data null (cn) or no data (overseas)
TokenBodies ==
    {Dict(Field("code", hasCode, code) @@ Field("msg", hasMsg, StrV("token msg"))
          @@ Field("data", hasData, data)) :
        hasCode \in BOOLEAN, code \in TokenCodes, hasMsg \in BOOLEAN,
        hasData \in BOOLEAN, data \in TokenPayloads \cup {None}}

TokenAnswers ==
    {TokenAnswer(TRUE, 0, Unparseable), TokenAnswer(FALSE, 500, Unparseable),
     TokenAnswer(FALSE, 200, Unparseable), TokenAnswer(FALSE, 200, List)}
    \cup {TokenAnswer(FALSE, 200, b) : b \in TokenBodies}
    \cup {TokenAnswer(FALSE, 403, Dict(Field("code", TRUE, code)
                                        @@ Field("msg", TRUE, StrV("token msg")))) :
              code \in {StrV("200"), StrV("10001")}}

\* the token endpoint is not asked: nothing to answer
NoAnswer == TokenAnswer(FALSE, 0, Unparseable)

\* the token endpoint's answers to an acquisition for this region
AnswersFor(region) == IF region \in DOMAIN url_map THEN TokenAnswers ELSE {NoAnswer}

\* the token endpoint's answers to a read of the token of Client self
AnswersOnRead(self) ==
    IF TokenExpired(self) THEN AnswersFor(self.region) ELSE {NoAnswer}

HttpResponse(conn, status, body) == [conn |-> conn, status |-> status, body |-> body]

\* a body that carries the same code at every place an envelope shape reads
UniformBody(code) ==
    Dict([code |-> code, msg |-> StrV("msg"),
          meta |-> Dict([code |-> code, message |-> StrV("message")]),
          result |-> Dict([code |-> code, msg |-> StrV("msg")]),
          data |-> StrV("payload")])

CallCodes ==
    {StrV("200"), IntV("200"), StrV("10002"), IntV("10002"), StrV("10001"),
     StrV("20015"), IntV("60020")}

CallResponses ==
    {HttpResponse(TRUE, 0, Unparseable), HttpResponse(FALSE, 200, Unparseable),
     HttpResponse(FALSE, 500, Unparseable)}
    \cup {HttpResponse(FALSE, st, UniformBody(code)) :
              st \in {200, 500}, code \in CallCodes}

\* what an URL requested through Client._request answers
RequestResponses ==
    {HttpResponse(TRUE, 0, Unparseable), HttpResponse(FALSE, 200, Unparseable),
     HttpResponse(FALSE, 500, Unparseable),
     HttpResponse(FALSE, 200, UniformBody(StrV("200"))),
     HttpResponse(FALSE, 200, UniformBody(StrV("10002"))),
     HttpResponse(FALSE, 404, UniformBody(StrV("200")))}

----------------------------------------------------------------------------
(* the state machine of a Client and its API object *)

\* the most recent operation: which, on which Client, its outcome, the
\* requests it sent to the token endpoint and to an endpoint, and the bearer
\* attached to the endpoint request; url is the URL an endpoint method
\* requested, None when it sent nothing; request is what Client._request
\* was called with and where it put the token; api_name is the endpoint
\* method that was called
RequestArgs(method, data_is_dict, place) ==
    [method |-> method, data_is_dict |-> data_is_dict, place |-> place]

NoRequest == RequestArgs("", FALSE, "none")

Last(op, c, out, acquires, sent, bearer) ==
    [op |-> op, client |-> c, out |-> out, acquires |-> acquires, sent |-> sent,
     bearer |-> bearer, url |-> None, request |-> NoRequest, api_name |-> ""]

NoLast == Last("none", "-", Return(None), 0, 0, None)

\* the arguments and the token endpoint's answer of one acquisition
Pending(phase, cred, region, tr) ==
    [phase |-> phase, cred |-> cred, region |-> region, tr |-> tr]

NoPending ==
    Pending("idle", [app_key |-> "", app_secret |-> ""], "", NoAnswer)

\* the arguments and the outcome of one application of _handle_api_response
Interp(phase, http_response, response_format, error_code_map, out) ==
    [phase |-> phase, http_response |-> http_response,
     response_format |-> response_format, error_code_map |-> error_code_map,
     out |-> out]

NoInterp == Interp("idle", HttpResponse(FALSE, 0, Unparseable), "default", None,
                   Return(None))

Init ==
    /\ clients = [c \in ClientIds |-> NoClient]
    /\ acquired = [c \in ClientIds |-> 0]
    /\ apis = [c \in ClientIds |-> NoAPI]
    /\ last = NoLast
    /\ pending = NoPending
    /\ interp = NoInterp

\* a construction that keeps the token in one place shared by all Clients
ConstructWith_shared_token(c, cred, region, tr) ==
    /\ ~clients[c].exists
    /\ \E r \in {ClientInit(cred.app_key, cred.app_secret, region, tr)} :
        /\ clients' = [d \in ClientIds |->
                          IF d = c THEN r.client
                          ELSE IF clients[d].exists /\ r.client.exists
                          THEN [clients[d] EXCEPT !.token = r.client.token]
                          ELSE clients[d]]
        /\ acquired' = [acquired EXCEPT ![c] = IF r.client.exists THEN r.calls ELSE 0]
        /\ last' = Last("construct", c, r.out, r.calls, 0, None)
        /\ UNCHANGED <<apis, interp>>

\* c = Client(app_key, app_secret, region), answered by tr
ConstructWith(c, cred, region, tr) ==
    /\ ~clients[c].exists
    /\ \E r \in {ClientInit(cred.app_key, cred.app_secret, region, tr)} :
        /\ clients' = [clients EXCEPT ![c] = r.client]
        /\ acquired' = [acquired EXCEPT ![c] = IF r.client.exists THEN r.calls ELSE 0]
        /\ last' = Last("construct", c, r.out, r.calls, 0, None)
        /\ UNCHANGED <<apis, interp>>

Construct(c) ==
    /\ ~clients[c].exists
    /\ \E cred \in Credentials, region \in ClientRegions :
         \E tr \in AnswersFor(region) : ConstructWith(c, cred, region, tr)
    /\ UNCHANGED pending

\* c.access_token
ReadToken(c) ==
    /\ clients[c].exists
    /\ TokenExpired(clients[c]) => acquired[c] < MaxAcquire
    /\ \E tr \in AnswersOnRead(clients[c]) :
         \E r \in {access_token(clients[c], tr)} :
             /\ clients' = [clients EXCEPT ![c] = r.client]
             /\ acquired' = [acquired EXCEPT ![c] = @ + r.calls]
             /\ last' = Last("read", c, r.out, r.calls, 0, None)
             /\ UNCHANGED <<apis, pending, interp>>

\* EZVIZOpenAPI(c)
ConstructAPI(c) ==
    /\ clients[c].exists
    /\ ~apis[c].exists
    /\ apis' = [apis EXCEPT ![c] = EZVIZOpenAPIInit(clients[c])]
    /\ last' = Last("api", c, Return(None), 0, 0, None)
    /\ UNCHANGED <<clients, acquired, pending, interp>>

\* a call of an endpoint method of the API object of c
EndpointCall(c) ==
    /\ apis[c].exists
    /\ TokenExpired(clients[c]) => acquired[c] < MaxAcquire
    /\ \E ep \in Endpoints, http_response \in CallResponses :
         \E tr \in AnswersOnRead(clients[c]) :
           \E r \in {EndpointMethod(ep, clients[c], tr, http_response)} :
               /\ clients' = [clients EXCEPT ![c] = r.client]
               /\ acquired' = [acquired EXCEPT ![c] = @ + r.calls]
               /\ last' = [Last("call", c, r.out, r.calls, r.sent, r.bearer)
                               EXCEPT !.url = IF r.sent > 0
                                              THEN EndpointURL(apis[c], ep)
                                              ELSE None,
                                      !.api_name = ep.api_name]
               /\ UNCHANGED <<apis, pending, interp>>

\* c._request(method, url, ...)
Request(c) ==
    /\ clients[c].exists
    /\ TokenExpired(clients[c]) => acquired[c] < MaxAcquire
    /\ \E method \in Methods, data_is_dict \in BOOLEAN, json_error_wrapped \in BOOLEAN,
          http_response \in RequestResponses :
         \E tr \in AnswersOnRead(clients[c]) :
           \E r \in {_request(clients[c], method, data_is_dict,
                              json_error_wrapped, tr, http_response)} :
               /\ clients' = [clients EXCEPT ![c] = r.client]
               /\ acquired' = [acquired EXCEPT ![c] = @ + r.calls]
               /\ last' = [Last("request", c, r.out, r.calls, r.sent, r.bearer)
                               EXCEPT !.request =
                                   RequestArgs(method, data_is_dict,
                                       IF r.sent > 0
                                       THEN TokenPlace(method, data_is_dict)
                                       ELSE "none")]
               /\ UNCHANGED <<apis, pending, interp>>

Next ==
    \/ Construct("A")
    \/ ReadToken("A")
    \/ ConstructAPI("A")
    \/ EndpointCall("A")
    \/ Request("A")

Spec == Init /\ [][Next]_vars

----------------------------------------------------------------------------
(* two Clients in one process, each with its own credential, and the branch
   of Client.access_token that replaces the cached token. No operation of
   Client or EZVIZOpenAPI records the expiry code on the cached token, so
   that branch is entered only after the holder of the Client has set
   client._access_token.code to TOKEN_EXPIRED_CODE: MarkExpired is that
   assignment, made by the application, not by the library. *)

CredentialOf(c) ==
    IF c = "A" THEN [app_key |-> "keyA", app_secret |-> "secretA"]
    ELSE [app_key |-> "keyB", app_secret |-> "secretB"]

OwnerRegions == {"cn", "us"}

TokenBody(code, data) ==
    Dict(Field("code", TRUE, code) @@ Field("msg", TRUE, StrV("token msg"))
         @@ Field("data", TRUE, data))

\* a token without and one with a base-domain override, a refusal and a
\* connection failure
FewTokenAnswers ==
    {TokenAnswer(FALSE, 200, TokenBody(StrV("200"), TokenPayload("at.A", "1", FALSE, ""))),
     TokenAnswer(FALSE, 200,
                 TokenBody(StrV("200"), TokenPayload("at.B", "1", TRUE, "https://d1"))),
     TokenAnswer(FALSE, 200, TokenBody(StrV("10001"), None)),
     TokenAnswer(TRUE, 0, Unparseable)}

FewAnswersOnRead(self) == IF TokenExpired(self) THEN FewTokenAnswers ELSE {NoAnswer}

FewEndpoints == {ep \in Endpoints : ep.api_name \in {"is_device_support_ezviz", "add_device"}}

FewCallResponses ==
    {HttpResponse(FALSE, 200, UniformBody(StrV("200"))),
     HttpResponse(FALSE, 200, UniformBody(StrV("10002")))}

OwnerConstruct(c) ==
    /\ ~clients[c].exists
    /\ \E region \in OwnerRegions, tr \in FewTokenAnswers :
         ConstructWith(c, CredentialOf(c), region, tr)
    /\ UNCHANGED pending

\* client._access_token.code = Client.TOKEN_EXPIRED_CODE
MarkExpired(c) ==
    /\ clients[c].exists
    /\ ~TokenExpired(clients[c])
    /\ acquired[c] < MaxAcquire
    /\ clients' = [clients EXCEPT ![c].token.code = TOKEN_EXPIRED_CODE]
    /\ last' = Last("mark", c, Return(None), 0, 0, None)
    /\ UNCHANGED <<acquired, apis, pending, interp>>

OwnerReadToken(c) ==
    /\ clients[c].exists
    /\ TokenExpired(clients[c]) => acquired[c] < MaxAcquire
    /\ \E tr \in FewAnswersOnRead(clients[c]) :
         \E r \in {access_token(clients[c], tr)} :
             /\ clients' = [clients EXCEPT ![c] = r.client]
             /\ acquired' = [acquired EXCEPT ![c] = @ + r.calls]
             /\ last' = Last("read", c, r.out, r.calls, 0, None)
             /\ UNCHANGED <<apis, pending, interp>>

\* an endpoint call that takes its base URL from the token it has just read
OwnerEndpointCall_follows_token(c) ==
    /\ apis[c].exists
    /\ TokenExpired(clients[c]) => acquired[c] < MaxAcquire
    /\ \E ep \in FewEndpoints, http_response \in FewCallResponses :
         \E tr \in FewAnswersOnRead(clients[c]) :
           \E r \in {EndpointMethod(ep, clients[c], tr, http_response)} :
               /\ clients' = [clients EXCEPT ![c] = r.client]
               /\ acquired' = [acquired EXCEPT ![c] = @ + r.calls]
               /\ last' = [Last("call", c, r.out, r.calls, r.sent, r.bearer)
                               EXCEPT !.url = IF r.sent > 0
                                              THEN EndpointURL(
                                                       EZVIZOpenAPIInit(r.client), ep)
                                              ELSE None,
                                      !.api_name = ep.api_name]
               /\ UNCHANGED <<apis, pending, interp>>

OwnerEndpointCall(c) ==
    /\ apis[c].exists
    /\ TokenExpired(clients[c]) => acquired[c] < MaxAcquire
    /\ \E ep \in FewEndpoints, http_response \in FewCallResponses :
         \E tr \in FewAnswersOnRead(clients[c]) :
           \E r \in {EndpointMethod(ep, clients[c], tr, http_response)} :
               /\ clients' = [clients EXCEPT ![c] = r.client]
               /\ acquired' = [acquired EXCEPT ![c] = @ + r.calls]
               /\ last' = [Last("call", c, r.out, r.calls, r.sent, r.bearer)
                               EXCEPT !.url = IF r.sent > 0
                                              THEN EndpointURL(apis[c], ep)
                                              ELSE None,
                                      !.api_name = ep.api_name]
               /\ UNCHANGED <<apis, pending, interp>>

NextOwners ==
    \E c \in ClientIds :
        \/ OwnerConstruct(c)
        \/ MarkExpired(c)
        \/ OwnerReadToken(c)
        \/ ConstructAPI(c)
        \/ OwnerEndpointCall(c)

SpecOwners == Init /\ [][NextOwners]_vars

----------------------------------------------------------------------------
(* one acquisition, through each of its three entry points *)

InitAcquire ==
    /\ clients = [c \in ClientIds |-> NoClient]
    /\ acquired = [c \in ClientIds |-> 0]
    /\ apis = [c \in ClientIds |-> NoAPI]
    /\ last = NoLast
    /\ interp = NoInterp
    /\ \E cred \in Credentials, region \in RegionInputs :
         \E tr \in AnswersFor(region) : pending = Pending("input", cred, region, tr)

Acquired(op, r) ==
    Last(op, "-",
         IF r.out.kind = "return" THEN Return(<<"AccessToken", r.token>>) ELSE r.out,
         r.calls, 0, None)

\* AccessToken(app_key, app_secret, region)
NewAccessToken ==
    /\ pending.phase = "input"
    /\ last' = Acquired("AccessToken",
                   AccessToken(pending.cred.app_key, pending.cred.app_secret,
                               pending.region, pending.tr))
    /\ pending' = [pending EXCEPT !.phase = "done"]
    /\ UNCHANGED <<clients, acquired, apis, interp>>

\* get_access_token(app_key, app_secret, region)
GetAccessToken ==
    /\ pending.phase = "input"
    /\ last' = Acquired("get_access_token",
                   get_access_token(pending.cred.app_key, pending.cred.app_secret,
                                    pending.region, pending.tr))
    /\ pending' = [pending EXCEPT !.phase = "done"]
    /\ UNCHANGED <<clients, acquired, apis, interp>>

\* Client(app_key, app_secret, region)
NewClient ==
    /\ pending.phase = "input"
    /\ ConstructWith("A", pending.cred, pending.region, pending.tr)
    /\ pending' = [pending EXCEPT !.phase = "done"]

NextAcquire == NewAccessToken \/ GetAccessToken \/ NewClient

SpecAcquire == InitAcquire /\ [][NextAcquire]_vars

----------------------------------------------------------------------------
(* one application of _handle_api_response *)

DeviceCodeValues ==
    {StrV(c) : c \in DEVICE_NOT_SUPPORTED_CODES}
    \cup {IntV(c) : c \in DEVICE_NOT_SUPPORTED_CODES}

\* the codes a body may carry: as a number or a string, or null
CodeValues ==
    DeviceCodeValues
    \cup {StrV("200"), IntV("200"), StrV("10001"), IntV("10001"), StrV("10002"),
          StrV("20002"), StrV("49999"), None}

FewCodeValues == {StrV("200"), IntV("200"), StrV("20015"), StrV("10001")}

\* nothing, or the object under the key meta or result: null, or a dict with
\* or without a code and with or without its message
Nested(key, mkey, isDict, hasCode, code, hasMsg) ==
    Field(key, TRUE,
          IF isDict
          THEN Dict(Field("code", hasCode, code)
                    @@ Field(mkey, hasMsg, StrV("nested message")))
          ELSE None)

NestedParts(codes) ==
    {EmptyDict}
    \cup {Nested("meta", "message", isDict, hasCode, code, hasMsg) :
              isDict \in BOOLEAN, hasCode \in BOOLEAN, code \in codes,
              hasMsg \in BOOLEAN}
    \cup {Nested("result", "msg", isDict, hasCode, code, hasMsg) :
              isDict \in BOOLEAN, hasCode \in BOOLEAN, code \in codes,
              hasMsg \in BOOLEAN}

TopParts(codes) ==
    {Field("code", hasCode, code) @@ Field("msg", hasMsg, StrV("top msg"))
     @@ Field("message", hasMessage, StrV("top message"))
     @@ Field("data", TRUE, StrV("payload")) :
        hasCode \in BOOLEAN, code \in codes, hasMsg \in BOOLEAN,
        hasMessage \in BOOLEAN}

\* every code at one place, a few codes at the other
Bodies ==
    {Dict(top @@ nested) : top \in TopParts(CodeValues),
                           nested \in NestedParts(FewCodeValues)}
    \cup {Dict(top @@ nested) : top \in TopParts(FewCodeValues),
                                nested \in NestedParts(CodeValues)}
    \cup {Unparseable, List}

HttpStatuses == {200, 302, 404, 500}

ResponseFormats == {"default", "meta", "result", "code"}

\* no per-call table, an empty one, and one whose codes the global table
\* also has (10001, 10002) or lacks (49999)
ErrorCodeMaps ==
    {None, Dict(EmptyDict), CustomMap("custom", {"10001", "10002", "49999"})}

InitInterp ==
    /\ clients = [c \in ClientIds |-> NoClient]
    /\ acquired = [c \in ClientIds |-> 0]
    /\ apis = [c \in ClientIds |-> NoAPI]
    /\ last = NoLast
    /\ pending = NoPending
    /\ \E st \in HttpStatuses, body \in Bodies, fmt \in ResponseFormats,
          map \in ErrorCodeMaps :
         interp = Interp("input", HttpResponse(FALSE, st, body), fmt, map,
                         Return(None))

\* self._handle_api_response(http_response, api_name, device_serial,
\*                           error_code_map, response_format)
HandleApiResponse ==
    /\ interp.phase = "input"
    /\ interp' = [interp EXCEPT
                    !.phase = "done",
                    !.out = _handle_api_response(interp.http_response, "api_name",
                                "SERIAL", interp.error_code_map,
                                interp.response_format)]
    /\ UNCHANGED <<clients, acquired, apis, last, pending>>

NextInterp == HandleApiResponse

SpecInterp == InitInterp /\ [][NextInterp]_vars

----------------------------------------------------------------------------
(* one call of search_device_info on a constructed Client *)

SearchCodeValues ==
    CodeValues
    \cup {StrV(c) : c \in SEARCH_DEVICE_SUCCESS_CODES}
    \cup {IntV(c) : c \in SEARCH_DEVICE_SUCCESS_CODES}
    \cup {StrV("60107"), StrV("20013")}

SearchBodies ==
    {Dict(r @@ Field("data", TRUE, StrV("payload"))) :
        r \in {EmptyDict}
              \cup {Nested("result", "msg", isDict, hasCode, code, hasMsg) :
                        isDict \in BOOLEAN, hasCode \in BOOLEAN,
                        code \in SearchCodeValues, hasMsg \in BOOLEAN}}
    \cup {Unparseable, List}

SearchMethods == {"GET", "POST", "get"}

\* the Clients a successful construction gives, in and out of the region cn
SearchClients ==
    {ClientInit("keyA", "secretA", region,
                TokenAnswer(FALSE, 200,
                    TokenBody(StrV("200"), TokenPayload("at.A", "1", FALSE, "")))).client :
        region \in {"cn", "us"}}

InitSearch ==
    /\ \E self \in SearchClients :
         /\ clients = [c \in ClientIds |-> IF c = "A" THEN self ELSE NoClient]
         /\ apis = [c \in ClientIds |->
                       IF c = "A" THEN EZVIZOpenAPIInit(self) ELSE NoAPI]
    /\ acquired = [c \in ClientIds |-> IF c = "A" THEN 1 ELSE 0]
    /\ last = NoLast
    /\ pending = NoPending
    /\ \E st \in HttpStatuses, body \in SearchBodies, conn \in BOOLEAN :
         interp = Interp("input", HttpResponse(conn, st, body), "result",
                         Dict(error_remark_dict), Return(None))

\* api.search_device_info("SERIAL", method=method)
SearchDeviceInfo ==
    /\ interp.phase = "input"
    /\ \E method \in SearchMethods :
         \E r \in {search_device_info(clients["A"], NoAnswer, method,
                                      interp.http_response)} :
             /\ clients' = [clients EXCEPT !["A"] = r.client]
             /\ acquired' = [acquired EXCEPT !["A"] = @ + r.calls]
             /\ last' = [Last("call", "A", r.out, r.calls, r.sent, r.bearer)
                             EXCEPT !.request = RequestArgs(method, TRUE,
                                        IF r.sent = 0 THEN "none"
                                        ELSE IF method = "GET" THEN "params"
                                        ELSE "data"),
                                    !.api_name = "search_device_info"]
             /\ interp' = [interp EXCEPT !.phase = "done", !.out = r.out]
             /\ UNCHANGED <<apis, pending>>

NextSearch == SearchDeviceInfo

SpecSearch == InitSearch /\ [][NextSearch]_vars

----------------------------------------------------------------------------
(* one call of transmit_isapi_command on a constructed Client *)

\* a response with the headers the platform answers an ISAPI command with
IsapiResponse(conn, status, body, headers) ==
    [conn |-> conn, status |-> status, body |-> body, headers |-> headers]

\* EZO-Code values inside and outside the remark table
IsapiCodes ==
    {StrV(c) : c \in DOMAIN isapi_error_remark_dict}
    \cup {StrV("200"), StrV("49999"), StrV("60020"), StrV("")}

IsapiHeaders ==
    {Field("EZO-Code", hasCode, code)
     @@ Field("EZO-Message", hasMessage, StrV("ezo message")) :
        hasCode \in BOOLEAN, code \in IsapiCodes, hasMessage \in BOOLEAN}

IsapiMethods == {"GET", "PUT", "get", "PATCH"}

ContentTypes == {"application/xml", "application/json"}

InitIsapi ==
    /\ \E self \in SearchClients :
         /\ clients = [c \in ClientIds |-> IF c = "A" THEN self ELSE NoClient]
         /\ apis = [c \in ClientIds |->
                       IF c = "A" THEN EZVIZOpenAPIInit(self) ELSE NoAPI]
    /\ acquired = [c \in ClientIds |-> IF c = "A" THEN 1 ELSE 0]
    /\ last = NoLast
    /\ pending = NoPending
    /\ \E st \in HttpStatuses, body \in {Unparseable, Dict(EmptyDict)},
          conn \in BOOLEAN, headers \in IsapiHeaders :
         interp = Interp("input", IsapiResponse(conn, st, body, headers), "headers",
                         Dict(isapi_error_remark_dict), Return(None))

\* api.transmit_isapi_command(path, method, "SERIAL", body, content_type)
TransmitIsapiCommand ==
    /\ interp.phase = "input"
    /\ \E method \in IsapiMethods, content_type \in ContentTypes,
          json_error_wrapped \in BOOLEAN :
         \E r \in {transmit_isapi_command(clients["A"], NoAnswer, method,
                        content_type, json_error_wrapped, interp.http_response)} :
             /\ clients' = [clients EXCEPT !["A"] = r.client]
             /\ acquired' = [acquired EXCEPT !["A"] = @ + r.calls]
             /\ last' = [Last("call", "A", r.out, r.calls, r.sent, r.bearer)
                             EXCEPT !.request = RequestArgs(method, FALSE,
                                        IF r.sent = 0 THEN "none" ELSE "headers"),
                                    !.api_name = "transmit_isapi_command"]
             /\ interp' = [interp EXCEPT !.phase = "done", !.out = r.out]
             /\ UNCHANGED <<apis, pending>>

NextIsapi == TransmitIsapiCommand

SpecIsapi == InitIsapi /\ [][NextIsapi]_vars

----------------------------------------------------------------------------
(* properties *)

\* the most recent operation was an endpoint call that the remote service
\* answered with the expiry code: the token it used is now known to be stale
ToldExpired ==
    /\ last.op = "call"
    /\ last.sent = 1
    /\ last.out.kind = "EZVIZAPIError"
    /\ PyEq(last.out.code, TOKEN_EXPIRED_CODE)

C2_RoundTripReacquiresOnce ==
    [][(ToldExpired /\ last'.op = "call" /\ last'.client = last.client
          /\ last'.sent = 1)
          => last'.acquires = 1]_vars

\* what the declared envelope shape extracts from the interpreted response
InterpX ==
    _extract_code_and_message(interp.http_response.body, interp.response_format)

\* the interpreter was applied to a parsed body with a code at the declared place
InterpExtracted ==
    /\ interp.phase = "done"
    /\ IsDict(interp.http_response.body)
    /\ ~InterpX.err

DeviceCapabilitySet ==
    {"2030", "20015", "20019", "60000", "60020", "60047", "60050", "60051", "60053"}

InterpDeviceCode ==
    /\ InterpX.code[1] \in {"str", "int"}
    /\ InterpX.code[2] \in DeviceCapabilitySet

InterpSuccessCode == InterpX.code \in {IntV("200"), StrV("200")}

HttpFailed == interp.http_response.status \in 400..599

\* C3: a parsed response whose extracted code, number or string, is in the
\* device-capability set fails with EZVIZDeviceNotSupportedError carrying
\* that code, whatever the HTTP status and the envelope shape.
C3_DeviceCodeBeforeStatus ==
    (InterpExtracted /\ InterpDeviceCode)
        => /\ interp.out.kind = "EZVIZDeviceNotSupportedError"
           /\ interp.out.code = StrV(InterpX.code[2])

C3_Witness ==
    /\ InterpExtracted
    /\ InterpX.code = IntV("60047")
    /\ interp.response_format = "meta"
    /\ interp.http_response.status = 404
    /\ interp.out.kind = "EZVIZDeviceNotSupportedError"

\* C4 as stated: a parsed response whose extracted code is the success
\* literal returns the payload regardless of the HTTP status.
C4_SuccessRegardlessOfStatus ==
    (InterpExtracted /\ InterpSuccessCode)
        => /\ interp.out.kind = "return"
           /\ interp.out.value = interp.http_response.body

\* C4 amended: a parsed response whose extracted code is the success literal
\* (number or string) returns the parsed body when the HTTP status does not
\* indicate failure, and fails with HTTP_ERROR when it does.
C4_SuccessWhenStatusOk ==
    (InterpExtracted /\ InterpSuccessCode)
        => IF HttpFailed
           THEN /\ interp.out.kind = "EZVIZAPIError"
                /\ interp.out.code = HTTP_ERROR
           ELSE /\ interp.out.kind = "return"
                /\ interp.out.value = interp.http_response.body

C4_Witness ==
    /\ InterpExtracted
    /\ InterpX.code = IntV("200")
    /\ interp.response_format = "result"
    /\ interp.http_response.status = 200
    /\ interp.out.kind = "return"

\* C5: a parsed response whose extracted code is not a device-capability
\* code and whose HTTP status indicates failure fails with EZVIZAPIError
\* code "HTTP_ERROR", also when the extracted code is the success literal.
C5_StatusBeforeCode ==
    (InterpExtracted /\ ~InterpDeviceCode /\ HttpFailed)
        => /\ interp.out.kind = "EZVIZAPIError"
           /\ interp.out.code = HTTP_ERROR

C5_Witness ==
    /\ InterpExtracted
    /\ InterpX.code = StrV("200")
    /\ interp.http_response.status = 500
    /\ interp.out.kind = "EZVIZAPIError"
    /\ interp.out.code = HTTP_ERROR

InterpUnparseable ==
    /\ interp.phase = "done"
    /\ interp.http_response.body[1] = "unparseable"

\* C6: an unparseable body with an HTTP status that does not indicate
\* failure never returns: it fails with EZVIZAPIError code "HTTP_ERROR" and
\* the could-not-parse remark.
C6_UnparseableOkIsError ==
    (InterpUnparseable /\ ~HttpFailed)
        => /\ interp.out.kind = "EZVIZAPIError"
           /\ interp.out.code = HTTP_ERROR
           /\ interp.out.remark = StrV("cannot parse response data")

C6_Witness ==
    /\ InterpUnparseable
    /\ interp.http_response.status = 200
    /\ interp.out.kind = "EZVIZAPIError"

\* C7: an unparseable body with a failing HTTP status fails with the typed
\* EZVIZAPIError "HTTP_ERROR", an EZVIZBaseError subclass.
C7_UnparseableFailedIsTyped ==
    (InterpUnparseable /\ HttpFailed)
        => /\ interp.out.kind = "EZVIZAPIError"
           /\ interp.out.code = HTTP_ERROR

RegionTable == {"cn", "en", "eu", "us", "sa", "sg", "in", "ru"}

\* C8: an acquisition for a region outside the 8-entry table, through
\* AccessToken, get_access_token or Client, fails with ValueError, sends
\* nothing to the token endpoint and leaves no Client.
C8_UnknownRegionNoCall ==
    (pending.phase = "done" /\ pending.region \notin RegionTable)
        => /\ last.out.kind = "ValueError"
           /\ last.acquires = 0
           /\ \A c \in ClientIds : ~clients[c].exists

C8_Witness ==
    /\ pending.phase = "done"
    /\ pending.region = "mars"
    /\ last.op = "construct"
    /\ last.out.kind = "ValueError"

\* the token endpoint answered with a parsed envelope that carries a code
\* other than the success literal
TokenAnswerRefused ==
    /\ pending.phase = "done"
    /\ pending.region \in RegionTable
    /\ ~pending.tr.conn
    /\ pending.tr.status \notin 400..599
    /\ IsDict(pending.tr.body)
    /\ "code" \in DOMAIN pending.tr.body[2]
    /\ pending.tr.body[2]["code"] # StrV("200")

CredentialErrorRemark(code) ==
    CASE code = StrV("10001") -> StrV("parameter empty or malformed")
      [] code = StrV("10005") -> StrV("appKey frozen")
      [] code = StrV("10017") -> StrV("check that appKey is correct")
      [] code = StrV("10030") -> StrV("")
      [] code = StrV("49999") -> StrV("interface call exception")
      [] OTHER -> StrV("unknown error")

\* C9: a token answer whose code is not "200" makes the acquisition, and
\* Client construction, fail with EZVIZAuthError carrying the returned code,
\* the returned message and the credential-error table's remark for the
\* code, or the generic remark for a code outside the table.
C9_RefusedIsAuthError ==
    TokenAnswerRefused
        => /\ last.out.kind = "EZVIZAuthError"
           /\ last.out.code = pending.tr.body[2]["code"]
           /\ "msg" \in DOMAIN pending.tr.body[2]
                 => last.out.message = pending.tr.body[2]["msg"]
           /\ last.out.remark = CredentialErrorRemark(pending.tr.body[2]["code"])
           /\ \A c \in ClientIds : ~clients[c].exists

C9_Witness ==
    /\ TokenAnswerRefused
    /\ last.op = "construct"
    /\ last.out.kind = "EZVIZAuthError"
    /\ last.out.code = StrV("10017")
    /\ last.out.message = StrV("token msg")
    /\ last.out.remark = StrV("check that appKey is correct")

\* C10: every Client that exists holds a token whose code is "200", obtained
\* by an acquisition, and a construction that raised left no Client.
C10_ClientHoldsValidToken ==
    /\ \A c \in ClientIds :
          clients[c].exists
              => /\ clients[c].token.code = StrV("200")
                 /\ acquired[c] >= 1
    /\ last.op = "construct"
          => (clients[last.client].exists <=> last.out.kind = "return")

C10_Witness ==
    /\ last.op = "construct"
    /\ last.out.kind = "return"
    /\ clients["A"].exists
    /\ clients["A"].token.data.access_token = StrV("at.B")

\* the interpreter reached the comparison of the extracted code with the
\* success literal, and the code is not the success literal
InterpBusinessError ==
    /\ InterpExtracted
    /\ ~InterpDeviceCode
    /\ ~HttpFailed
    /\ ~InterpSuccessCode

GlobalRemarkCodes ==
    {"2001", "2003", "2030", "7007", "9049", "10001", "10002", "10005", "10007",
     "10008", "10010", "10011", "10014", "10017", "10018", "10023", "10026",
     "10027", "10028", "10030", "20001", "20002", "20005", "20007", "20008",
     "20010", "20018", "20025", "20031", "60020", "60057", "60060", "60083",
     "60084", "60085", "60086"}

\* per-call table first, then the global table, then the generic remark
TwoTierRemark(text, custom_map) ==
    IF custom_map[1] = "dict" /\ text \in DOMAIN custom_map[2]
    THEN custom_map[2][text]
    ELSE IF text \in GlobalRemarkCodes
    THEN <<"remark", <<"global", text>>>>
    ELSE StrV("unknown error")

\* C11: a business error carries the per-call table's remark for the code
\* when a per-call table was given and has the code, else the global
\* table's remark, else the generic unknown remark.
C11_PerCallRemarkFirst ==
    InterpBusinessError
        => /\ interp.out.kind = "EZVIZAPIError"
           /\ interp.out.remark = TwoTierRemark(InterpX.code[2], interp.error_code_map)

\* the code 10001 is in both tables: the per-call remark wins
C11_Witness ==
    /\ InterpBusinessError
    /\ InterpX.code = StrV("10001")
    /\ interp.error_code_map[1] = "dict"
    /\ "10001" \in DOMAIN interp.error_code_map[2]
    /\ interp.out.remark = <<"remark", <<"custom", "10001">>>>

\* the other typing of the success literal
OtherTyping(code) == IF code[1] = "int" THEN StrV(code[2]) ELSE IntV(code[2])

\* the body with the code at the place the shape read it typed the other way
Retyped(body, response_format) ==
    LET top == [body[2] EXCEPT !["code"] = OtherTyping(@)]
        under(key) ==
            [body[2] EXCEPT ![key] = Dict([@[2] EXCEPT !["code"] = OtherTyping(@)])]
    IN  Dict(CASE response_format = "meta" -> under("meta")
               [] response_format = "result" -> under("result")
               [] response_format = "code" -> top
               [] OTHER -> IF "code" \in DOMAIN body[2] /\ body[2]["code"][1] # "none"
                           THEN top ELSE under("meta"))

InterpRetypedOut ==
    _handle_api_response(
        [interp.http_response EXCEPT
            !.body = Retyped(interp.http_response.body, interp.response_format)],
        "api_name", "SERIAL", interp.error_code_map, interp.response_format)

\* C12: a response whose extracted code is the number 200 and the response
\* that differs from it only in carrying the string "200" there (and the
\* other way round) have the same outcome: both return their parsed body,
\* or both raise the same error.
C12_NumberAndStringAlike ==
    (InterpExtracted /\ InterpSuccessCode)
        => /\ InterpRetypedOut.kind = interp.out.kind
           /\ InterpRetypedOut.code = interp.out.code
           /\ InterpRetypedOut.message = interp.out.message
           /\ InterpRetypedOut.remark = interp.out.remark
           /\ interp.out.kind = "return"
                 => InterpRetypedOut.value =
                        Retyped(interp.http_response.body, interp.response_format)

C12_Witness ==
    /\ InterpExtracted
    /\ InterpX.code = IntV("200")
    /\ interp.response_format = "code"
    /\ interp.http_response.status = 200
    /\ interp.out.kind = "return"
    /\ InterpRetypedOut.kind = "return"
    /\ InterpRetypedOut.value[2]["code"] = StrV("200")

\* the example of a meta response: code 200 under meta, a data field, HTTP 200
MetaExample ==
    /\ InterpExtracted
    /\ interp.response_format = "meta"
    /\ InterpX.code = IntV("200")
    /\ "message" \in DOMAIN interp.http_response.body[2]["meta"][2]
    /\ "data" \in DOMAIN interp.http_response.body[2]
    /\ interp.http_response.status = 200

\* C13 as stated: for the meta example the returned value is the data field.
C13_ReturnsDataField ==
    MetaExample
        => /\ interp.out.kind = "return"
           /\ interp.out.value[1] = interp.http_response.body[2]["data"][1]
           /\ interp.out.value[2] = interp.http_response.body[2]["data"][2]

\* C13 amended: for the meta example the returned value is the whole parsed
\* body, with its meta object and with D under its data key.
C13_ReturnsWholeBody ==
    MetaExample
        => /\ interp.out.kind = "return"
           /\ interp.out.value = interp.http_response.body
           /\ interp.out.value[2]["data"] = interp.http_response.body[2]["data"]
           /\ "meta" \in DOMAIN interp.out.value[2]

C13_Witness ==
    /\ MetaExample
    /\ interp.out.kind = "return"
    /\ interp.out.value[2]["data"] = StrV("payload")

\* the interpreter was applied to a parsed JSON object
InterpParsed ==
    /\ interp.phase = "done"
    /\ interp.http_response.body[1] = "dict"

InterpBody == interp.http_response.body[2]

HasKey(d, k) == k \in DOMAIN d

\* the message at the top level: msg, else message, else the generic text
TopMessage ==
    IF HasKey(InterpBody, "msg") THEN InterpBody["msg"]
    ELSE IF HasKey(InterpBody, "message") THEN InterpBody["message"]
    ELSE StrV("unknown error")

\* the code and the message of the object under key, when it is absent
\* (nothing there), null (.get fails) or a dict
NestedRead(key, mkey, dflt) ==
    IF ~HasKey(InterpBody, key)
    THEN [err |-> FALSE, code |-> None, message |-> dflt]
    ELSE IF InterpBody[key][1] # "dict"
    THEN [err |-> TRUE, code |-> None, message |-> None]
    ELSE [err |-> FALSE,
          code |-> IF HasKey(InterpBody[key][2], "code")
                   THEN InterpBody[key][2]["code"] ELSE None,
          message |-> IF HasKey(InterpBody[key][2], mkey)
                      THEN InterpBody[key][2][mkey] ELSE dflt]

TopRead == [err |-> FALSE, code |-> InterpBody["code"], message |-> TopMessage]

\* what the outcome shows of the extraction: the AttributeError of a failed
\* read, and the code and message that a business error carries
OutcomeShows(x) ==
    /\ x.err <=> interp.out.kind = "AttributeError"
    /\ (interp.out.kind = "EZVIZAPIError" /\ interp.out.code # HTTP_ERROR)
          => /\ interp.out.code = StrV(x.code[2])
             /\ interp.out.message = x.message
    /\ interp.out.kind = "EZVIZDeviceNotSupportedError"
          => interp.out.code = StrV(x.code[2])

\* C14 as stated: under the default shape the code and message are read at
\* the top level whenever the key code is there, and under meta only when
\* the key is absent.
C14_TopCodeUnlessAbsent ==
    (InterpParsed /\ interp.response_format = "default")
        => LET x == IF HasKey(InterpBody, "code") THEN TopRead
                    ELSE NestedRead("meta", "message", TopMessage)
           IN  InterpX = x /\ OutcomeShows(x)

\* C14 amended: under the default shape the code and message are read at
\* the top level when the key code is there and not null; when it is absent
\* or null the code is meta.code and the message is meta.message, or the
\* top-level message when meta has none.
C14_TopCodeUnlessAbsentOrNull ==
    (InterpParsed /\ interp.response_format = "default")
        => LET x == IF HasKey(InterpBody, "code") /\ InterpBody["code"][1] # "none"
                    THEN TopRead
                    ELSE NestedRead("meta", "message", TopMessage)
           IN  InterpX = x /\ OutcomeShows(x)

\* both places carry a code and they disagree: the top-level one decides
C14_Witness ==
    /\ InterpParsed
    /\ interp.response_format = "default"
    /\ HasKey(InterpBody, "code") /\ InterpBody["code"] = StrV("10001")
    /\ HasKey(InterpBody, "meta") /\ InterpBody["meta"][1] = "dict"
    /\ HasKey(InterpBody["meta"][2], "code")
    /\ InterpBody["meta"][2]["code"] = StrV("200")
    /\ interp.http_response.status = 200
    /\ interp.out.kind = "EZVIZAPIError"
    /\ interp.out.code = StrV("10001")

\* what the declared shape reads, and nowhere else
DeclaredRead ==
    CASE interp.response_format = "meta" ->
             NestedRead("meta", "message", StrV("unknown error"))
      [] interp.response_format = "result" ->
             NestedRead("result", "msg", StrV("unknown error"))
      [] interp.response_format = "code" ->
             [err |-> FALSE,
              code |-> IF HasKey(InterpBody, "code") THEN InterpBody["code"] ELSE None,
              message |-> IF HasKey(InterpBody, "msg") THEN InterpBody["msg"]
                          ELSE StrV("unknown error")]

\* C15: under the shapes meta, result and code the code and the message are
\* read at the declared place only, and a response without a code there is
\* never returned as a success, whatever it carries elsewhere.
C15_DeclaredPlaceOnly ==
    (InterpParsed /\ interp.response_format \in {"meta", "result", "code"})
        => /\ InterpX = DeclaredRead
           /\ OutcomeShows(DeclaredRead)
           /\ DeclaredRead.code[1] = "none" => interp.out.kind # "return"

\* a success code at the top level, none under result
C15_Witness ==
    /\ InterpParsed
    /\ interp.response_format = "result"
    /\ HasKey(InterpBody, "code") /\ InterpBody["code"] = StrV("200")
    /\ ~HasKey(InterpBody, "result")
    /\ interp.http_response.status = 200
    /\ interp.out.kind = "EZVIZAPIError"
    /\ interp.out.code = StrV("None")

\* C16: one invocation of an endpoint method, or of Client._request, sends
\* at most one request to its endpoint, whatever the answer, and causes at
\* most one token acquisition.
C16_NoRetry ==
    last.op \in {"call", "request"} => last.sent <= 1 /\ last.acquires <= 1

\* an endpoint call was answered with the expiry code and surfaced it after
\* its single request
C16_Witness ==
    /\ last.op = "call"
    /\ last.out.kind = "EZVIZAPIError"
    /\ last.out.code = TOKEN_EXPIRED_CODE
    /\ last.sent = 1

\* C17: every EZVIZAuthError, EZVIZAPIError and
\* EZVIZDeviceNotSupportedError raised by an acquisition carries its code as
\* a string, also when the token endpoint sent a number.
C17_ErrorCodeIsString ==
    (pending.phase = "done" /\ last.out.kind \in EZVIZErrorKinds)
        => last.out.code[1] = "str"

\* C17, the half that holds: the errors raised by response interpretation
\* carry str(code)
C17_InterpErrorCodeIsString ==
    (interp.phase = "done" /\ interp.out.kind \in EZVIZErrorKinds)
        => interp.out.code[1] = "str"

\* C18: the token of a Client of the region cn never has area_domain
\* populated, whatever the token endpoint's payload contains.
C18_DomesticHasNoAreaDomain ==
    \A c \in ClientIds :
        (clients[c].exists /\ clients[c].region = "cn")
            => area_domain(clients[c]) = None

\* the token of c carries a base-domain override: a non-empty areaDomain
HasOverride(c) ==
    /\ area_domain(clients[c])[1] = "str"
    /\ area_domain(clients[c])[2] # ""

\* C19: the base URL of every request of an endpoint method is the token's
\* area_domain when the token has one and https://open.ys7.com otherwise.
C19_BaseURLFromToken ==
    (last.op = "call" /\ last.sent > 0)
        => last.url[1] = IF HasOverride(last.client)
                         THEN area_domain(clients[last.client])
                         ELSE StrV("https://open.ys7.com")

\* a call went to the override of its token
C19_Witness ==
    /\ last.op = "call"
    /\ last.sent = 1
    /\ HasOverride(last.client)
    /\ last.url[1] = StrV("https://d1")

\* the expire_time values a cached token may carry
ExpireTimes == {IntV("1"), IntV("2"), None}

\* the read of the token of the Client self, had its expire_time been e
ReadWithExpireTime(self, e) ==
    access_token([self EXCEPT !.token.data.expire_time = e], NoAnswer)

\* C20: when the cached token's code is not the expiry code, a read of the
\* token returns the cached bearer without any request, and would have done
\* the same with any other expire_time.
C20_NoTimerExpiry ==
    (/\ last.op = "read"
     /\ ~PyEq(clients[last.client].token.code, TOKEN_EXPIRED_CODE))
        => /\ last.acquires = 0
           /\ last.out = Return(clients[last.client].token.data.access_token)
           /\ \A e \in ExpireTimes :
                 LET r == ReadWithExpireTime(clients[last.client], e)
                 IN  r.out = last.out /\ r.calls = last.acquires

\* a token with the earliest expire_time was read and handed out as cached
C20_Witness ==
    /\ last.op = "read"
    /\ clients[last.client].token.data.expire_time = IntV("1")
    /\ last.acquires = 0
    /\ last.out = Return(StrV("at.A"))

\* the tokens a successful acquisition builds: code, msg and data all from
\* one answer of the token endpoint
CompleteTokens ==
    {AccessToken("k", "s", "cn", tr).token :
        tr \in {a \in FewTokenAnswers : AccessToken("k", "s", "cn", a).out.kind = "return"}}

\* the step was a token read or an endpoint call on c whose re-acquisition
\* failed
RefreshFailed(c) ==
    /\ last'.client = c
    /\ last'.op \in {"read", "call"}
    /\ last'.acquires = 1
    /\ last'.sent = 0
    /\ last'.out.kind # "return"

\* C21: a token read or endpoint call leaves the cached token as it was or
\* replaces it by one complete new token, never a mixture of fields; when
\* the re-acquisition fails the cached token is left as it was.
C21_ReplaceWholeOrKeep ==
    [][\A c \in ClientIds :
          (clients[c].exists /\ last'.op \in {"read", "call"} /\ last'.client = c)
              => /\ clients'[c].token = clients[c].token
                    \/ (last'.acquires = 1 /\ clients'[c].token \in CompleteTokens)
                 /\ RefreshFailed(c) => clients'[c] = clients[c]]_vars

\* a re-acquisition was refused and the marked token is still the cached one
C21_Witness ==
    /\ last.op = "read"
    /\ last.acquires = 1
    /\ last.out.kind = "EZVIZAuthError"
    /\ clients[last.client].token.code = TOKEN_EXPIRED_CODE
    /\ clients[last.client].token.data.access_token = StrV("at.A")

\* C22: an operation on one Client changes neither the credential nor the
\* cached token (nor the API object) of the other Client.
C22_OtherClientUntouched ==
    [][\A c \in ClientIds :
          last'.client # c
              => /\ clients'[c] = clients[c]
                 /\ acquired'[c] = acquired[c]
                 /\ apis'[c] = apis[c]]_vars

\* both Clients exist with their own credentials; A has just replaced its
\* token while B holds another one
C22_Witness ==
    /\ clients["A"].exists /\ clients["B"].exists
    /\ clients["A"].app_key = "keyA" /\ clients["B"].app_key = "keyB"
    /\ last.op = "read" /\ last.client = "A" /\ last.acquires = 1
    /\ last.out = Return(StrV("at.B"))
    /\ clients["B"].token.data.access_token = StrV("at.A")

\* the parts of the string representation of the error e
Parts(e) == {e.text[2][i] : i \in 1..Len(e.text[2])}

\* C23: the string representation of every EZVIZAuthError, EZVIZAPIError and
\* EZVIZDeviceNotSupportedError shows the code, the message and the remark
\* the error carries, the remark of an EZVIZDeviceNotSupportedError being the
\* text built from the device serial, the API name and the message.
C23_TextShowsCodeMessageRemark ==
    last.out.kind \in EZVIZErrorKinds
        => /\ str_of(last.out.code) \in Parts(last.out)
           /\ Format(last.out.message) \in Parts(last.out)
           /\ Format(last.out.remark) \in Parts(last.out)
           /\ last.out.kind = "EZVIZDeviceNotSupportedError"
                 => /\ last.out.remark[1] = "fstr"
                    /\ last.out.message[2] = last.out.remark[2][6]
                    /\ \E ep \in Endpoints :
                         /\ last.out.remark[2][2] = ep.device_serial
                         /\ last.out.remark[2][4] = ep.api_name

\* an endpoint call raised EZVIZDeviceNotSupportedError for a code the
\* service sent as a number
C23_Witness ==
    /\ last.op = "call"
    /\ last.out.kind = "EZVIZDeviceNotSupportedError"
    /\ last.out.code = StrV("60020")
    /\ last.out.text[2][2] = StrV("60020")
    /\ last.out.text[2][6] = last.out.remark

\* Client._request sent its request
Requested1 == last.op = "request" /\ last.sent = 1

CachedBearer == clients[last.client].token.data.access_token

Searched ==
    /\ interp.phase = "done"
    /\ last.sent = 1
    /\ ~interp.http_response.conn

\* the answer is a JSON object whose result.code can be read (result absent
\* reads as no code), and that code as a text
SearchReadable ==
    /\ interp.http_response.body[1] = "dict"
    /\ ~NestedRead("result", "msg", StrV("unknown error")).err

SearchCode == NestedRead("result", "msg", StrV("unknown error")).code[2]

\* C25: a search_device_info answer whose result.code is in the
\* device-capability set gives EZVIZDeviceNotSupportedError, whatever the
\* HTTP status.
C25_SearchDeviceCodeBeforeStatus ==
    (Searched /\ SearchReadable /\ SearchCode \in DeviceCapabilitySet)
        => interp.out.kind = "EZVIZDeviceNotSupportedError"

\* C26: search_device_info returns the parsed answer exactly when the HTTP
\* status is ok and result.code is 200, 20020, 20023 or 20029; any other
\* code outside the device-capability set, with the status ok, gives
\* EZVIZAPIError with that code.
C26_SearchSuccessCodes ==
    Searched
        => /\ interp.out.kind = "return"
                <=> /\ ~HttpFailed
                    /\ SearchReadable
                    /\ SearchCode \in {"200", "20020", "20023", "20029"}
           /\ interp.out.kind = "return"
                => interp.out.value = interp.http_response.body
           /\ (/\ ~HttpFailed
               /\ SearchReadable
               /\ SearchCode \notin DeviceCapabilitySet
               /\ SearchCode \notin {"200", "20020", "20023", "20029"})
                => /\ interp.out.kind = "EZVIZAPIError"
                   /\ interp.out.code = StrV(SearchCode)

\* the code 20023 (offline, not added) is returned as a success
C26_Witness ==
    /\ Searched
    /\ SearchReadable
    /\ SearchCode = "20023"
    /\ interp.http_response.status = 200
    /\ interp.out.kind = "return"

\* transmit_isapi_command passed its method check
IsapiCalled ==
    /\ interp.phase = "done"
    /\ last.request.method \in {"GET", "POST", "PUT", "DELETE"}

IsapiHeader(name) == interp.http_response.headers[name]

IsapiHas(name) == name \in DOMAIN interp.http_response.headers

\* C27: after its method check every failure of transmit_isapi_command is
\* an EZVIZAPIError; an answer with an ok HTTP status whose EZO-Code is
\* missing or is not "200" gives EZVIZAPIError with the code and the
\* EZO-Message received, when they are there.
C27_IsapiFailuresAreTyped ==
    IsapiCalled
        => /\ interp.out.kind # "return" => interp.out.kind = "EZVIZAPIError"
           /\ (/\ last.sent = 1
               /\ ~interp.http_response.conn
               /\ ~HttpFailed
               /\ ~(IsapiHas("EZO-Code") /\ IsapiHeader("EZO-Code") = StrV("200")))
                => /\ interp.out.kind = "EZVIZAPIError"
                   /\ IsapiHas("EZO-Code")
                         => interp.out.code = IsapiHeader("EZO-Code")
                   /\ IsapiHas("EZO-Message")
                         => interp.out.message = IsapiHeader("EZO-Message")

\* the endpoint methods that begin with the region check
CnOnlyMethods == {"is_device_support_ezviz", "get_device_channel_status"}

\* C28: a cn-only endpoint method called on a Client of another region
\* fails with EZVIZAPIError "403" without reading the token: no token
\* acquisition, no endpoint request, and the cached token as it was, also
\* when it is marked expired.
C28_RegionCheckBeforeToken ==
    [][\A c \in ClientIds :
          (/\ last'.op = "call"
           /\ last'.client = c
           /\ last'.api_name \in CnOnlyMethods
           /\ clients[c].region # "cn")
              => /\ last'.out.kind = "EZVIZAPIError"
                 /\ last'.out.code = StrV("403")
                 /\ last'.acquires = 0
                 /\ last'.sent = 0
                 /\ clients' = clients
                 /\ acquired' = acquired]_vars

\* refused for the region while the cached token was marked expired
C28_Witness ==
    /\ last.op = "call"
    /\ last.api_name \in CnOnlyMethods
    /\ clients[last.client].region = "us"
    /\ clients[last.client].token.code = TOKEN_EXPIRED_CODE
    /\ last.out.code = StrV("403")
    /\ last.acquires = 0

C30_BaseURLFixedAtConstruction ==
    [][\A c \in ClientIds :
          apis[c].exists
              => /\ apis'[c] = apis[c]
                 /\ (last'.op = "call" /\ last'.client = c /\ last'.sent = 1)
                       => last'.url[1] = apis[c].base_url]_vars

\* the API object was built on a token without an override; the token has
\* since been replaced by one with an override, and a call still went to
\* the default domain
C30_Witness ==
    /\ last.op = "call"
    /\ last.sent = 1
    /\ last.url[1] = DEFAULT_BASE_URL
    /\ area_domain(clients[last.client]) = StrV("https://d1")

====
